---------------------------- MODULE Spec2Model ----------------------------
(***************************************************************************)
(* SVDLinear_updateFullView (lib/THNN/generic/SVDLinear.c): for every      *)
(* requested 1-based identifier the routine stores                         *)
(*     dot(B[id-1, :], h) + bias[id-1]                                     *)
(* into z[id-1] (non-batched) or z[id-1][b] (batched), the iterations of   *)
(* each loop being distributed over worker threads by "omp parallel for".  *)
(*                                                                         *)
(* Tensors are strided views: a storage (a function from offsets to        *)
(* values), a storageOffset, and per-dimension size and stride.  Values    *)
(* of type real are modelled as integers (exact arithmetic; rounding of    *)
(* the floating-point sum is not modelled).                                *)
(***************************************************************************)
EXTENDS Integers, FiniteSets, Sequences, TLC

(***************************************************************************)
(* Bounds of the model.                                                    *)
(***************************************************************************)
NumUnits == 3    \* V: rows of B, length of z and bias
HiddenDim == 2   \* D: columns of B, length of h
MaxN == 2        \* largest leading dimension of indices
MaxBatch == 2    \* largest batch dimension
MaxItems == 4    \* largest trip count N * batchSize of one call

VARIABLES
    indices,     \* THLongTensor: [nDimension, size, data]
    z,           \* THTensor (written)
    B,           \* THTensor V x D (read)
    h,           \* THTensor D (x Batch) (read)
    bias,        \* THTensor V, or the null pointer ([null |-> TRUE])
    phase,       \* "running": inside the parallel loop; "returned"; "undefined"
    call,        \* "first" or "second" invocation with the same arguments
    log,         \* loop counter -> what that iteration read and wrote
    lastWriter,  \* offset of z's storage -> loop counter that stored there last
    pre,         \* the arguments as they were when the current call began
    first,       \* z's storage before and after the first call
    fault        \* an access outside a storage, or a division by zero, happened

vars == <<indices, z, B, h, bias, phase, call, log, lastWriter, pre, first, fault>>

(***************************************************************************)
(* Strided views.                                                          *)
(***************************************************************************)
Dims1(a) == [i \in {0} |-> a]
Dims2(a, b) == [i \in {0, 1} |-> IF i = 0 THEN a ELSE b]

Pad == 0 - 99        \* content of storage cells no view element maps to
Sentinel == 0 - 77   \* pre-fill of z for the "untouched cells" test

LayoutKinds == {"contiguous", "transposed", "sliced", "strided"}

\* A view of an R x C logical matrix M (M[r][c]) laid out in a fresh storage.
Layout2(kind, R, C) ==
    CASE kind = "contiguous" -> [off |-> 0, s0 |-> C,     s1 |-> 1, len |-> R * C]
      [] kind = "transposed" -> [off |-> 0, s0 |-> 1,     s1 |-> R, len |-> R * C]
      [] kind = "sliced"     -> [off |-> 1, s0 |-> C + 1, s1 |-> 1, len |-> R * (C + 1)]
      [] kind = "strided"    -> [off |-> 0, s0 |-> 2 * C, s1 |-> 2, len |-> 2 * R * C]

Tensor2(kind, M, R, C) ==
    LET L == Layout2(kind, R, C)
        Cells == (0..(R - 1)) \X (0..(C - 1))
        At(o) == {rc \in Cells : L.off + rc[1] * L.s0 + rc[2] * L.s1 = o}
    IN  [storage |-> [o \in 0..(L.len - 1) |->
                        IF At(o) = {} THEN Pad
                        ELSE LET rc == CHOOSE x \in At(o) : TRUE IN M[rc[1]][rc[2]]],
         storageOffset |-> L.off,
         size |-> Dims2(R, C),
         stride |-> Dims2(L.s0, L.s1),
         null |-> FALSE]

\* A view of a logical vector f of length R.
Layout1(kind, R) ==
    CASE kind = "contiguous" -> [off |-> 0, s0 |-> 1, len |-> R]
      [] kind = "transposed" -> [off |-> 1, s0 |-> 2, len |-> 2 * R]
      [] kind = "sliced"     -> [off |-> 1, s0 |-> 1, len |-> R + 1]
      [] kind = "strided"    -> [off |-> 0, s0 |-> 2, len |-> 2 * R]

Tensor1(kind, f, R) ==
    LET L == Layout1(kind, R)
        At(o) == {r \in 0..(R - 1) : L.off + r * L.s0 = o}
    IN  [storage |-> [o \in 0..(L.len - 1) |->
                        IF At(o) = {} THEN Pad
                        ELSE f[CHOOSE x \in At(o) : TRUE]],
         storageOffset |-> L.off,
         size |-> Dims1(R),
         stride |-> Dims1(L.s0),
         null |-> FALSE]

NullTensor == [null |-> TRUE]

\* Logical element of a view (the meaning of a strided view, section 3).
Elem1(t, i) == t.storage[t.storageOffset + i * t.stride[0]]
Elem2(t, i, j) == t.storage[t.storageOffset + i * t.stride[0] + j * t.stride[1]]
Addr1(t, i) == t.storageOffset + i * t.stride[0]
Addr2(t, i, j) == t.storageOffset + i * t.stride[0] + j * t.stride[1]


(***************************************************************************)
(* Accessors of the tensor library used by the routine.                    *)
(***************************************************************************)
THLongTensor_size(t, dim) == t.size[dim]
THLongTensor_nDimension(t) == t.nDimension
THLongTensor_get1d(t, x0) == t.data[<<x0>>]
THLongTensor_get2d(t, x0, x1) == t.data[<<x0, x1>>]
THTensor_size(t, dim) == t.size[dim]
\* THTensor_(data)(t): the pointer storage->data + storageOffset, as an
\* offset into t.storage.
THTensor_data(t) == t.storageOffset

\* THBlas_(dot)(n, x, incx, y, incy): sum of x[i*incx] * y[i*incy], i < n, in
\* increasing i; xs and ys are the storages the pointers x and y point into.
RECURSIVE THBlas_dot(_, _, _, _, _, _, _)
THBlas_dot(n, xs, x, incx, ys, y, incy) ==
    IF n <= 0 THEN 0
    ELSE THBlas_dot(n - 1, xs, x, incx, ys, y, incy)
           + xs[x + (n - 1) * incx] * ys[y + (n - 1) * incy]

\* The offsets THBlas_(dot) dereferences through one operand.
DotReads(n, x, incx) == [i \in 0..(n - 1) |-> x + i * incx]

(***************************************************************************)
(* SVDLinear.c, lines 5-14: the macros and the static helpers.             *)
(*                                                                         *)
(* An operator defined right before the operator whose name it extends     *)
(* (ROW_PTR2NoOffset before ROW_PTR2, ...) is a faulty variant of it: a    *)
(* slip the code could plausibly contain, under which the property that    *)
(* depends on the operator fails.                                          *)
(***************************************************************************)
ROW_PTR2NoOffset(t, r) == r * t.stride[0]
ROW_PTR2(t, r) == THTensor_data(t) + r * t.stride[0]

COL_PTR2RowStride(t, c) == THTensor_data(t) + c * t.stride[0]
COL_PTR2(t, c) == THTensor_data(t) + c * t.stride[1]

get1dIndex(t, x0) == t.storageOffset + x0 * t.stride[0]
get1d(t, x0) == t.storage[get1dIndex(t, x0)]

set2dIndexNoColumn(t, x0, x1) == t.storageOffset + x0 * t.stride[0]
set2dIndexSwapped(t, x0, x1) == t.storageOffset + x0 * t.stride[1] + x1 * t.stride[0]
set2dIndex(t, x0, x1) == t.storageOffset + x0 * t.stride[0] + x1 * t.stride[1]
set2d(t, x0, x1, value) == [t EXCEPT !.storage[set2dIndex(t, x0, x1)] = value]

\* THNN_(set1d) is called at line 38 and defined in another file of the
\* library; it is the one-dimensional store of a strided view.
set1dIndex(t, x0) == t.storageOffset + x0 * t.stride[0]
set1d(t, x0, value) == [t EXCEPT !.storage[set1dIndex(t, x0)] = value]

(***************************************************************************)
(* SVDLinear_updateFullView, lines 29-63.  "a" is the argument record      *)
(* [indices, z, B, h, bias].                                               *)
(***************************************************************************)
NOf(a) == THLongTensor_size(a.indices, 0)
VOf(a) == THTensor_size(a.z, 0)
DOf(a) == THTensor_size(a.h, 0)
batchSizeOf(a) == THLongTensor_size(a.indices, 1)
IsNonBatched(a) == THLongTensor_nDimension(a.indices) = 1

\* Number of iterations of the parallel loop (the bounds at lines 36 and 51).
TripCountRowsOnly(a) == NOf(a)
TripCountInclusive(a) == (IF IsNonBatched(a) THEN NOf(a) ELSE NOf(a) * batchSizeOf(a)) + 1
TripCountOf(a) == IF IsNonBatched(a) THEN NOf(a) ELSE NOf(a) * batchSizeOf(a)

\* Lines 52-53.
nIdxOfSwapped(a, nbIdx) == nbIdx % batchSizeOf(a)
nIdxOf(a, nbIdx) == nbIdx \div batchSizeOf(a)
bIdxOf(a, nbIdx) == nbIdx % batchSizeOf(a)

\* Lines 37 and 54: the row index of iteration k.
vIdxShared(a, k) ==
    IF IsNonBatched(a) THEN THLongTensor_get1d(a.indices, 0) - 1
    ELSE THLongTensor_get2d(a.indices, 0, 0) - 1
vIdxOf(a, k) ==
    IF IsNonBatched(a) THEN THLongTensor_get1d(a.indices, k) - 1
    ELSE THLongTensor_get2d(a.indices, nIdxOf(a, k), bIdxOf(a, k)) - 1

\* Lines 43 and 60: (bias ? get1d(bias, vIdx) : 0).
BiasTermIgnored(a, vIdx) == 0
BiasTerm(a, vIdx) == IF ~a.bias.null THEN get1d(a.bias, vIdx) ELSE 0

\* Lines 39-43 and 56-60: the value iteration k stores.
ValueOf(a, k) ==
    LET vIdx == vIdxOf(a, k) IN
    IF IsNonBatched(a)
    THEN THBlas_dot(DOf(a),
                    a.B.storage, ROW_PTR2(a.B, vIdx), a.B.stride[1],
                    a.h.storage, THTensor_data(a.h), a.h.stride[0])
           + BiasTerm(a, vIdx)
    ELSE THBlas_dot(DOf(a),
                    a.B.storage, ROW_PTR2(a.B, vIdx), a.B.stride[1],
                    a.h.storage, COL_PTR2(a.h, bIdxOf(a, k)), a.h.stride[0])
           + BiasTerm(a, vIdx)

\* Lines 38 and 55: where iteration k stores.
DstOf(a, k) ==
    IF IsNonBatched(a) THEN set1dIndex(a.z, vIdxOf(a, k))
    ELSE set2dIndex(a.z, vIdxOf(a, k), bIdxOf(a, k))

\* Lines 37-44 and 52-61: one iteration of the loop body; the new z.
BodyOf(a, k) ==
    IF IsNonBatched(a) THEN set1d(a.z, vIdxOf(a, k), ValueOf(a, k))
    ELSE set2d(a.z, vIdxOf(a, k), bIdxOf(a, k), ValueOf(a, k))

\* What iteration k dereferences.
BReads(a, k) == DotReads(DOf(a), ROW_PTR2(a.B, vIdxOf(a, k)), a.B.stride[1])
hReads(a, k) ==
    IF IsNonBatched(a) THEN DotReads(DOf(a), THTensor_data(a.h), a.h.stride[0])
    ELSE DotReads(DOf(a), COL_PTR2(a.h, bIdxOf(a, k)), a.h.stride[0])

\* Every access of iteration k is defined: no division by zero, the index
\* tensor is read inside its shape, every pointer stays inside its storage.
AccessDefined(a, k) ==
    /\ IsNonBatched(a) \/ batchSizeOf(a) # 0
    /\ IF IsNonBatched(a) THEN <<k>> \in DOMAIN a.indices.data
       ELSE <<nIdxOf(a, k), bIdxOf(a, k)>> \in DOMAIN a.indices.data
    /\ \A i \in 0..(DOf(a) - 1) :
          /\ BReads(a, k)[i] \in DOMAIN a.B.storage
          /\ hReads(a, k)[i] \in DOMAIN a.h.storage
    /\ a.bias.null \/ get1dIndex(a.bias, vIdxOf(a, k)) \in DOMAIN a.bias.storage
    /\ DstOf(a, k) \in DOMAIN a.z.storage

LogEntry(a, k) ==
    [n |-> IF IsNonBatched(a) THEN k ELSE nIdxOf(a, k),
     b |-> IF IsNonBatched(a) THEN 0 ELSE bIdxOf(a, k),
     v |-> vIdxOf(a, k),
     Breads |-> BReads(a, k),
     hreads |-> hReads(a, k),
     biasread |-> IF a.bias.null THEN 0 - 1 ELSE get1dIndex(a.bias, vIdxOf(a, k)),
     dst |-> DstOf(a, k),
     val |-> ValueOf(a, k)]

\* The loop run by one thread, iterations 0 .. n-1 in order; the final z.
RECURSIVE SequentialLoop(_, _)
SequentialLoop(a, n) ==
    IF n <= 0 THEN a.z
    ELSE LET zt == SequentialLoop(a, n - 1)
         IN  BodyOf([a EXCEPT !.z = zt], n - 1)

(***************************************************************************)
(* The arguments a caller may pass (sections 3 and 7: shapes agree, every  *)
(* identifier lies in 1..V, the tensors do not share storage).             *)
(***************************************************************************)
BScenario == [v \in 0..(NumUnits - 1) |-> [d \in 0..(HiddenDim - 1) |-> HiddenDim * v + d + 1]]
BSigned == [v \in 0..(NumUnits - 1) |-> [d \in 0..(HiddenDim - 1) |-> 2 * v - 3 * d]]
hOnes == [d \in 0..(HiddenDim - 1) |-> [b \in 0..MaxBatch |-> 1]]
hColumns == [d \in 0..(HiddenDim - 1) |-> [b \in 0..MaxBatch |-> d + 1 + 2 * b]]

\* The data of a call: B, h, whether bias is passed, and the pre-fill of z.
DataSet ==
    { [Bm |-> BScenario, hm |-> hOnes,    withBias |-> FALSE, zfill |-> Sentinel],
      [Bm |-> BScenario, hm |-> hOnes,    withBias |-> TRUE,  zfill |-> 0],
      [Bm |-> BSigned,   hm |-> hColumns, withBias |-> TRUE,  zfill |-> Sentinel],
      [Bm |-> BSigned,   hm |-> hColumns, withBias |-> FALSE, zfill |-> 0] }

biasVector == [v \in 0..(NumUnits - 1) |-> IF v = 0 THEN 10 ELSE 1 - v]

IndexTensors1 ==
    UNION { { [nDimension |-> 1, size |-> Dims1(n), data |-> f] :
                f \in [ {<<i>> : i \in 0..(n - 1)} -> 1..NumUnits ] } :
            n \in 0..MaxN }

IndexTensors2 ==
    UNION { { [nDimension |-> 2, size |-> Dims2(nb[1], nb[2]), data |-> f] :
                f \in [ (0..(nb[1] - 1)) \X (0..(nb[2] - 1)) -> 1..NumUnits ] } :
            nb \in { x \in (0..MaxN) \X (0..MaxBatch) : x[1] * x[2] <= MaxItems } }

\* The offsets of z's storage that are elements of the view z.
ViewAddrs(t) ==
    IF DOMAIN t.size = {0}
    THEN { Addr1(t, i) : i \in 0..(t.size[0] - 1) }
    ELSE { Addr2(t, rc[1], rc[2]) : rc \in (0..(t.size[0] - 1)) \X (0..(t.size[1] - 1)) }

\* z with every element of the view set to x (the caller's pre-fill).
Fill(t, x) ==
    [t EXCEPT !.storage = [o \in DOMAIN t.storage |->
                              IF o \in ViewAddrs(t) THEN x ELSE t.storage[o]]]

Arguments(kind, Bm, hm, withBias, zfill, ind) ==
    [indices |-> ind,
     z |-> IF ind.nDimension = 1
           THEN Tensor1(kind, [v \in 0..(NumUnits - 1) |-> zfill], NumUnits)
           ELSE Tensor2(kind, [v \in 0..(NumUnits - 1) |-> [b \in 0..MaxBatch |-> zfill]],
                        NumUnits, ind.size[1]),
     B |-> Tensor2(kind, Bm, NumUnits, HiddenDim),
     h |-> IF ind.nDimension = 1
           THEN Tensor1(kind, [d \in 0..(HiddenDim - 1) |-> hm[d][0]], HiddenDim)
           ELSE Tensor2(kind, hm, HiddenDim, ind.size[1]),
     bias |-> IF withBias THEN Tensor1(kind, biasVector, NumUnits) ELSE NullTensor]

Args == [indices |-> indices, z |-> z, B |-> B, h |-> h, bias |-> bias]
N == NOf(Args)
V == VOf(Args)
D == DOf(Args)
batchSize == batchSizeOf(Args)
TripCount == TripCountOf(Args)

NoWriter == 0 - 1

Enter(a) ==
    /\ indices = a.indices
    /\ z = a.z
    /\ B = a.B
    /\ h = a.h
    /\ bias = a.bias
    /\ pre = a
    /\ phase = "running"
    /\ call = "first"
    /\ log = <<>>
    /\ lastWriter = [o \in DOMAIN a.z.storage |-> NoWriter]
    /\ first = [z0 |-> a.z.storage, z |-> a.z.storage]
    /\ fault = FALSE

Init ==
    \E kind \in LayoutKinds, data \in DataSet, ind \in IndexTensors1 \cup IndexTensors2 :
        Enter(Arguments(kind, data.Bm, data.hm, data.withBias, data.zfill, ind))

(***************************************************************************)
(* The parallel loops.  An iteration reads indices, B, h and bias, which   *)
(* no iteration writes, and performs one store to z; iterations run in any *)
(* order on any number of threads, each exactly once.  Two iterations that *)
(* store to the same cell race; the cell ends with the value of one of the *)
(* two stores, the one that lands last.  An access that is not defined     *)
(* leaves the call in the state "undefined".                               *)
(***************************************************************************)
Pending == (0..(TripCount - 1)) \ DOMAIN log

Iteration(k) ==
    /\ phase = "running"
    /\ k \in Pending
    /\ IF AccessDefined(Args, k)
       THEN /\ z' = BodyOf(Args, k)
            /\ log' = (k :> LogEntry(Args, k)) @@ log
            /\ lastWriter' = [lastWriter EXCEPT ![DstOf(Args, k)] = k]
            /\ UNCHANGED <<phase, fault>>
       ELSE /\ fault' = TRUE
            /\ phase' = "undefined"
            /\ UNCHANGED <<z, log, lastWriter>>
    /\ UNCHANGED <<indices, B, h, bias, call, pre, first>>

\* Lines 33-46: the non-batched loop.
NonBatched ==
    /\ THLongTensor_nDimension(indices) = 1
    /\ \E nIdx \in 0..MaxItems : Iteration(nIdx)

\* Lines 47-63: the batched loop.
Batched ==
    /\ THLongTensor_nDimension(indices) # 1
    /\ \E nbIdx \in 0..MaxItems : Iteration(nbIdx)

\* The implicit barrier that ends "omp parallel for": every iteration ran.
ReturnReadyNoBarrier == TRUE
ReturnReady == Pending = {}

\* Line 64.
Return ==
    /\ phase = "running"
    /\ ReturnReady
    /\ phase' = "returned"
    /\ UNCHANGED <<indices, z, B, h, bias, call, log, lastWriter, pre, first, fault>>

\* The caller zeroes z and calls again with the same arguments.
CallAgain ==
    /\ phase = "returned"
    /\ call = "first"
    /\ call' = "second"
    /\ first' = [z0 |-> pre.z.storage, z |-> z.storage]
    /\ z' = Fill(z, 0)
    /\ pre' = [pre EXCEPT !.z = Fill(z, 0)]
    /\ log' = <<>>
    /\ lastWriter' = [o \in DOMAIN z.storage |-> NoWriter]
    /\ phase' = "running"
    /\ UNCHANGED <<indices, B, h, bias, fault>>

Next == NonBatched \/ Batched \/ Return \/ CallAgain

Spec == Init /\ [][Next]_vars

(***************************************************************************)
(* The specification under fair scheduling: a thread that can run an       *)
(* iteration eventually runs one (the loop bodies are straight-line code   *)
(* that never blocks), and the master returns once the barrier opens.      *)
(* The arguments are the first data set in the contiguous layout with      *)
(* every index tensor.                                                     *)
(***************************************************************************)
LiveInit ==
    \E ind \in IndexTensors1 \cup IndexTensors2 :
        Enter(Arguments("contiguous", BScenario, hColumns, TRUE, Sentinel, ind))

LiveSpec ==
    /\ LiveInit
    /\ [][Next]_vars
    /\ WF_vars(NonBatched \/ Batched)
    /\ WF_vars(Return)

(***************************************************************************)
(* Vocabulary of the properties: logical elements, independent of the      *)
(* pointer arithmetic above.                                               *)
(***************************************************************************)
RECURSIVE SumTo(_, _)
SumTo(f, n) == IF n <= 0 THEN 0 ELSE SumTo(f, n - 1) + f[n - 1]

Flat == indices.nDimension = 1
Columns == IF Flat THEN {0} ELSE 0..(batchSize - 1)
AllPairs == (0..(N - 1)) \X Columns
IdAt(p) == IF Flat THEN indices.data[<<p[1]>>] ELSE indices.data[p]
ZElem(t, v, b) == IF DOMAIN t.size = {0} THEN Elem1(t, v) ELSE Elem2(t, v, b)
ZAddr(t, v, b) == IF DOMAIN t.size = {0} THEN Addr1(t, v) ELSE Addr2(t, v, b)
hElem(d, b) == IF Flat THEN Elem1(h, d) ELSE Elem2(h, d, b)
RefDot(v, b) == SumTo([d \in 0..(D - 1) |-> Elem2(B, v, d) * hElem(d, b)], D)
RefBias(v) == IF bias.null THEN 0 ELSE Elem1(bias, v)
Score(v, b) == RefDot(v, b) + RefBias(v)
\* The cells of z some identifier of the call addresses.
Addressed == { <<IdAt(p) - 1, p[2]>> : p \in AllPairs }
Ran == DOMAIN log
PairOf(k) == <<log[k].n, log[k].b>>

IsScenario ==
    /\ Flat /\ V = 3 /\ D = 2 /\ N = 2
    /\ indices.data[<<0>>] = 1 /\ indices.data[<<1>>] = 3
    /\ \A v \in 0..2 : \A d \in 0..1 : Elem2(B, v, d) = 2 * v + d + 1
    /\ \A d \in 0..1 : Elem1(h, d) = 1

\* C1: non-batched mode: once the call has returned, for every n the cell
\* z[indices[n]-1] holds dot(B[indices[n]-1, :], h) plus bias[indices[n]-1]
\* (plus 0 without bias); in the spec's scenarios z[0] = 3, z[2] = 11 without
\* bias and z[0] = 13, z[2] = 10 with bias = [10, 0, -1].
C1_NonBatchedScore ==
    (phase = "returned" /\ Flat) =>
        /\ \A n \in 0..(N - 1) :
              LET id == indices.data[<<n>>]
              IN  id \in 1..V => Elem1(z, id - 1) = Score(id - 1, 0)
        /\ (IsScenario /\ bias.null) => (Elem1(z, 0) = 3 /\ Elem1(z, 2) = 11)
        /\ (IsScenario /\ ~bias.null /\ Elem1(bias, 0) = 10 /\ Elem1(bias, 2) = 0 - 1)
              => (Elem1(z, 0) = 13 /\ Elem1(z, 2) = 10)

C1_Witness ==
    /\ phase = "returned" /\ IsScenario /\ ~bias.null
    /\ Elem1(z, 0) = 13 /\ Elem1(z, 2) = 10

\* C2: batched mode: once the call has returned, for every pair (n, b) the
\* cell z[indices[n][b]-1][b] holds the dot product of row indices[n][b]-1 of
\* B with column b of h, plus the bias term, and every one of the N*Batch
\* pairs was processed.
C2_BatchedScore ==
    (phase = "returned" /\ ~Flat) =>
        /\ \A p \in AllPairs :
              LET id == indices.data[p]
              IN  id \in 1..V => Elem2(z, id - 1, p[2]) = Score(id - 1, p[2])
        /\ { PairOf(k) : k \in Ran } = AllPairs

C2_Witness ==
    /\ phase = "returned" /\ ~Flat /\ N = 1 /\ batchSize = 2
    /\ indices.data[<<0, 0>>] = 1 /\ indices.data[<<0, 1>>] = 2
    /\ Elem2(h, 0, 0) # Elem2(h, 0, 1)
    /\ Elem2(z, 0, 0) = Score(0, 0) /\ Elem2(z, 1, 1) = Score(1, 1)
    /\ Score(1, 0) # Score(1, 1)

\* C3: in every state during and after the call, every cell of z that no
\* identifier addresses holds its value from before the call (as does every
\* storage cell outside the view), B, h, bias and indices are unchanged, and
\* with N = 0 the whole of z is unchanged; the stores go to addressed cells
\* only, and by the return every addressed cell has been stored to.
C3_Frame ==
    /\ \A v \in 0..(V - 1) : \A b \in Columns :
          <<v, b>> \notin Addressed => ZElem(z, v, b) = ZElem(pre.z, v, b)
    /\ \A o \in DOMAIN z.storage :
          o \notin ViewAddrs(z) => z.storage[o] = pre.z.storage[o]
    /\ B = pre.B /\ h = pre.h /\ bias = pre.bias /\ indices = pre.indices
    /\ N = 0 => z = pre.z
    /\ { log[k].dst : k \in Ran } \subseteq { ZAddr(z, c[1], c[2]) : c \in Addressed }
    /\ phase = "returned" =>
          { log[k].dst : k \in Ran } = { ZAddr(z, c[1], c[2]) : c \in Addressed }

C3_Witness ==
    /\ phase = "returned" /\ call = "first" /\ ~Flat /\ Cardinality(Ran) = 2
    /\ \E v \in 0..(V - 1) : \E b \in Columns :
          <<v, b>> \notin Addressed /\ ZElem(z, v, b) = Sentinel
    /\ \A c \in Addressed : ZElem(z, c[1], c[2]) # Sentinel

NoDuplicates ==
    \A p, q \in DOMAIN indices.data : p # q => indices.data[p] # indices.data[q]

\* C4: when no two work items resolve to the same identifier, no two work
\* items store to the same cell of z, and whatever the interleaving the z the
\* call returns is the z the sequential loop in index order produces.
C4_RaceFree ==
    NoDuplicates =>
        /\ \A k1, k2 \in Ran : k1 # k2 => log[k1].dst # log[k2].dst
        /\ phase = "returned" => z = SequentialLoop(pre, TripCountOf(pre))

C4_Witness ==
    /\ NoDuplicates /\ phase = "returned" /\ Cardinality(Ran) = 2
    /\ z # pre.z

\* The arguments of a non-batched call reshaped to a batch of one: indices
\* [N, 1], h [D, 1], z [V, 1] over the same storages.
Unsqueeze(t) ==
    [t EXCEPT !.size = Dims2(t.size[0], 1), !.stride = Dims2(t.stride[0], 1)]
AsBatchOfOne(a) ==
    [a EXCEPT !.indices = [nDimension |-> 2,
                           size |-> Dims2(a.indices.size[0], 1),
                           data |-> [p \in (0..(a.indices.size[0] - 1)) \X {0} |->
                                        a.indices.data[<<p[1]>>]]],
              !.z = Unsqueeze(a.z),
              !.h = Unsqueeze(a.h)]

\* C5: mode equivalence: the z[v] a non-batched call returns equals the
\* z[v][0] the batched mode yields on the same data reshaped to Batch = 1.
C5_ModeEquivalence ==
    (phase = "returned" /\ Flat) =>
        LET a == AsBatchOfOne(pre)
            zb == SequentialLoop(a, TripCountOf(a))
        IN  \A v \in 0..(V - 1) : Elem1(z, v) = Elem2(zb, v, 0)

C5_Witness ==
    /\ phase = "returned" /\ Flat /\ N = 2 /\ ~bias.null
    /\ indices.data[<<0>>] # indices.data[<<1>>]
    /\ \A n \in 0..1 : Elem1(z, indices.data[<<n>>] - 1) # Elem1(pre.z, indices.data[<<n>>] - 1)

SameRow(k1, k2) == log[k1].v = log[k2].v
SameCell(k1, k2) == log[k1].v = log[k2].v /\ log[k1].b = log[k2].b

\* C6 as stated: whenever two work items resolve to the same rowIndex, both
\* store to the same destination cell of z (in batched mode too).
C6_SameRowSameCell ==
    \A k1, k2 \in Ran : (k1 # k2 /\ SameRow(k1, k2)) => log[k1].dst = log[k2].dst

\* C6 amended: two work items that resolve to the same rowIndex and, in
\* batched mode, belong to the same batch column b store to the same cell
\* z[rowIndex] (z[rowIndex][b]); the cell holds the value stored by whichever
\* store to it occurred last.  Work items of the same rowIndex in different
\* batch columns store to different cells.
C6_LastWriteWins ==
    /\ \A k1, k2 \in Ran :
          (k1 # k2 /\ SameCell(k1, k2)) =>
              /\ log[k1].dst = log[k2].dst
              /\ log[k1].dst = ZAddr(z, log[k1].v, log[k1].b)
    /\ \A k1, k2 \in Ran :
          (SameRow(k1, k2) /\ log[k1].b # log[k2].b) => log[k1].dst # log[k2].dst
    /\ \A o \in DOMAIN lastWriter :
          lastWriter[o] # NoWriter =>
              /\ lastWriter[o] \in Ran
              /\ log[lastWriter[o]].dst = o
              /\ z.storage[o] = log[lastWriter[o]].val

C6_Witness ==
    /\ phase = "returned" /\ ~Flat
    /\ \E k1, k2 \in Ran :
          /\ k1 < k2 /\ SameCell(k1, k2) /\ log[k1].b = 1
          /\ lastWriter[log[k1].dst] = k1

\* Every work item of the call has run: none skipped, none pending.
AllWritten == \A p \in AllPairs : \E k \in Ran : PairOf(k) = p

\* C7: under fair scheduling every call eventually returns, and when it has
\* returned every one of the N (N*Batch) work items has done its store.
C7_Completion ==
    /\ [](phase = "running" => <>(phase = "returned"))
    /\ [](phase = "returned" => AllWritten)

C7_Witness ==
    /\ phase = "returned" /\ call = "second" /\ ~Flat
    /\ Cardinality(AllPairs) = 4 /\ AllWritten

FirstStartedZeroed == \A o \in ViewAddrs(z) : first.z0[o] = 0

\* C8: two calls with identical indices, B, h and bias (duplicates allowed),
\* each from a freshly zeroed z and under any interleaving, end with the same
\* contents of z, which are those the arguments alone determine.
C8_Idempotent ==
    /\ (phase = "returned" /\ call = "second" /\ FirstStartedZeroed) => z.storage = first.z
    /\ phase = "returned" => z = SequentialLoop(pre, TripCountOf(pre))

C8_Witness ==
    /\ phase = "returned" /\ call = "second" /\ FirstStartedZeroed
    /\ ~NoDuplicates /\ Cardinality(Ran) = 4
    /\ \E k1, k2 \in Ran : k1 < k2 /\ SameCell(k1, k2) /\ lastWriter[log[k1].dst] = k1
    /\ z.storage = first.z /\ z # pre.z

\* The same logical arguments in the contiguous layout.
Logical1(t) == [i \in 0..(t.size[0] - 1) |-> Elem1(t, i)]
Logical2(t) == [i \in 0..(t.size[0] - 1) |-> [j \in 0..(t.size[1] - 1) |-> Elem2(t, i, j)]]
Relayout(t) ==
    IF t.null THEN t
    ELSE IF DOMAIN t.size = {0} THEN Tensor1("contiguous", Logical1(t), t.size[0])
    ELSE Tensor2("contiguous", Logical2(t), t.size[0], t.size[1])
Contiguous(a) ==
    [a EXCEPT !.z = Relayout(a.z), !.B = Relayout(a.B),
              !.h = Relayout(a.h), !.bias = Relayout(a.bias)]

\* C9: stride independence: the logical z a call returns is the logical z of
\* the call on the same logical arguments in the contiguous layout; B[v][d]
\* is read at offset + v*stride0 + d*stride1, h[d] (h[d][b]) at offset +
\* d*stride0 (+ b*stride1), bias[v] at offset + v*stride0, and z[v] (z[v][b])
\* is written at offset + v*stride0 (+ b*stride1).
C9_StrideIndependent ==
    /\ \A k \in Ran :
          LET e == log[k] IN
          /\ e.Breads = [d \in 0..(D - 1) |-> Addr2(B, e.v, d)]
          /\ e.hreads = [d \in 0..(D - 1) |-> ZAddr(h, d, e.b)]
          /\ ~bias.null => e.biasread = Addr1(bias, e.v)
          /\ e.dst = ZAddr(z, e.v, e.b)
    /\ phase = "returned" =>
          LET a == Contiguous(pre)
              zc == SequentialLoop(a, TripCountOf(a))
          IN  \A v \in 0..(V - 1) : \A b \in Columns :
                  ZElem(z, v, b) = ZElem(zc, v, b)

C9_Witness ==
    /\ phase = "returned" /\ ~Flat /\ Cardinality(Ran) = 4
    /\ B.storageOffset # 0 /\ z.storageOffset # 0 /\ z.stride[0] # batchSize
    /\ z # pre.z

\* C10: under the caller's preconditions every access is defined (no access
\* outside a view, no division by zero), every logical index is inside its
\* shape, and in batched mode the counter k decomposes into n = k div Batch
\* and b = k mod Batch, each pair (n, b) being produced exactly once.
C10_InBounds ==
    /\ ~fault
    /\ \A k \in Ran :
          LET e == log[k] IN
          /\ k \in 0..(Cardinality(AllPairs) - 1)
          /\ e.n \in 0..(N - 1) /\ e.b \in Columns /\ e.v \in 0..(V - 1)
          /\ e.v = IdAt(<<e.n, e.b>>) - 1
          /\ DOMAIN e.Breads = 0..(D - 1) /\ DOMAIN e.hreads = 0..(D - 1)
          /\ \A d \in 0..(D - 1) :
                e.Breads[d] \in ViewAddrs(B) /\ e.hreads[d] \in ViewAddrs(h)
          /\ ~bias.null => e.biasread \in ViewAddrs(bias)
          /\ ~Flat => (batchSize > 0 /\ k = e.n * batchSize + e.b)
    /\ \A k1, k2 \in Ran : k1 # k2 => PairOf(k1) # PairOf(k2)
    /\ phase = "returned" => { PairOf(k) : k \in Ran } = AllPairs

C10_Witness ==
    /\ phase = "returned" /\ ~Flat /\ N = 2 /\ batchSize = 2
    /\ PairOf(3) = <<1, 1>> /\ PairOf(2) = <<1, 0>> /\ PairOf(1) = <<0, 1>>

=============================================================================
